---------------------------- MODULE Spec2Model ----------------------------
(***************************************************************************)
(* The streaming online-learning pipeline of river_sentiment_analysis.py:  *)
(* YelpDataPublisher -> [river_pipeline] -> YelpDataSubscriber ->          *)
(* [river_metrics] -> MetricsSubscriber, with the Ensign transport between *)
(* them (publish with asynchronous ack/nack callbacks, ordered topics).     *)
(*                                                                         *)
(* Floats are modelled as exact rationals <<num, den>> in lowest terms.    *)
(* The naive-Bayes comparison is done by cross-multiplication, so a tie is *)
(* an exact tie and goes to the class learned first (max() over a dict in  *)
(* insertion order).                                                       *)
(***************************************************************************)
EXTENDS Integers, Sequences, FiniteSets, TLC

\* ------------------------------------------------------------------ bounds
MaxRecords == 3
MaxNacks == 1
MaxSnapshots == 2
MaxArgs == 3
MaxRaw == 2
MaxBadSnapshots == 2

\* --------------------------------------------------------------- constants
Labels == {0, 1}
pos_val == 0
alpha == 1
DefaultThreshold == <<60, 100>>
Thresholds == {DefaultThreshold, <<1, 2>>}
Texts == {<<"Good", "good">>, <<"bad">>}
CsvRows == [text : Texts, sentiment : Labels]
None == <<>>
MimeJson == "application/json"
PipelineTopic == "river_pipeline"
MetricsTopic == "river_metrics"
TopicNames == {PipelineTopic, MetricsTopic}

VARIABLES
    csv,        \* data/yelp.csv: the rows of the file, in file order
    train_dict, \* YelpDataPublisher.publish: the loaded records
    pub_pc,     \* publisher position: "ensure", "read", "loop"
    pub_idx,    \* index of the next record of the for loop
    exists,     \* transport: the topics that exist
    log,        \* transport: topic -> committed events, in commit order
    inflight,   \* transport: topic -> published events awaiting ack/nack
    sent,       \* transport: topic -> every event handed to publish()
    nacks,      \* what handle_nack printed, in order
    acks,       \* topic -> number of handle_ack calls
    lrn_pc,     \* learner position
    lrn_pos,    \* number of river_pipeline events the learner consumed
    record,     \* run_model_pipeline: the decoded record in hand
    y_pred,     \* run_model_pipeline: the prediction in hand
    model,      \* YelpDataSubscriber.model (BagOfWords | MultinomialNB)
    confusion_matrix, \* YelpDataSubscriber.confusion_matrix
    preds,      \* the predictions taken so far, one per consumed event
    mon_pc,     \* monitor position
    mon_pos,    \* number of river_metrics events the monitor consumed
    threshold,  \* MetricsSubscriber.threshold
    warnings,   \* what logger.warn received, in order
    argv,       \* sys.argv of the invocation __main__ is dispatching
    main_pc,    \* __main__ position: "start", "done"
    stdout      \* what __main__ printed, in order

vars == <<csv, train_dict, pub_pc, pub_idx, exists, log, inflight, sent, nacks,
          acks, lrn_pc, lrn_pos, record, y_pred, model, confusion_matrix, preds,
          mon_pc, mon_pos, threshold, warnings, argv, main_pc, stdout>>

pubVars == <<csv, train_dict, pub_pc, pub_idx>>
lrnVars == <<lrn_pc, lrn_pos, record, y_pred, model, confusion_matrix, preds>>
monVars == <<mon_pc, mon_pos, threshold, warnings>>
netVars == <<exists, log, inflight, sent, nacks, acks>>
cliVars == <<argv, main_pc, stdout>>

\* ----------------------------------------------------------------- helpers
Range(s) == {s[i] : i \in DOMAIN s}

RECURSIVE SeqsUpTo(_, _)
SeqsUpTo(S, n) ==
    IF n = 0 THEN {<<>>}
    ELSE LET shorter == SeqsUpTo(S, n - 1)
         IN  shorter \cup {Append(s, x) : s \in {t \in shorter : Len(t) = n - 1}, x \in S}

RECURSIVE Pow(_, _)
Pow(b, e) == IF e = 0 THEN 1 ELSE b * Pow(b, e - 1)

RECURSIVE Gcd(_, _)
Gcd(a, b) == IF b = 0 THEN a ELSE Gcd(b, a % b)

\* a float n/d, as the rational in lowest terms
Ratio(n, d) == LET g == Gcd(n, d) IN <<n \div g, d \div g>>

\* a < b on rationals with positive denominators
Less(a, b) == a[1] * b[2] < b[1] * a[2]

\* ---------------------------------------------------------- json and Event
\* json.dumps of a dict: the members in insertion order, as key/value pairs
JsonDumps(keys, d) == [i \in 1..Len(keys) |-> <<keys[i], d[keys[i]]>>]

\* json.loads of an object: the dict of its members
JsonLoads(data) ==
    [k \in {data[i][1] : i \in DOMAIN data} |->
        LET i == CHOOSE j \in DOMAIN data : data[j][1] = k IN data[i][2]]

\* json.loads succeeds: the payload is a JSON object (every member a pair)
Decodable(data) == \A i \in DOMAIN data : Len(data[i]) = 2

Event(data) == [data |-> data, mimetype |-> MimeJson]

RecordEvent(r) == Event(JsonDumps(<<"text", "sentiment">>, r))

\* --------------------------------------------------------------- the model
Lowercase(w) == IF w = "Good" THEN "good" ELSE w

\* BagOfWords(lowercase=True).transform_one: token -> number of occurrences
BagOfWords(text) ==
    LET toks == {Lowercase(text[i]) : i \in DOMAIN text}
    IN  [t \in toks |-> Cardinality({i \in DOMAIN text : Lowercase(text[i]) = t})]

RECURSIVE SumOver(_, _)
SumOver(f, S) ==
    IF S = {} THEN 0
    ELSE LET x == CHOOSE y \in S : TRUE IN f[x] + SumOver(f, S \ {x})

\* Pipeline(BagOfWords, MultinomialNB()) before any learn_one
EmptyModel ==
    [classes        |-> <<>>,
     class_counts   |-> [c \in Labels |-> 0],
     feature_counts |-> [f \in {} |-> [c \in Labels |-> 0]],
     class_totals   |-> [c \in Labels |-> 0]]

\* MultinomialNB.learn_one on the bag of words of the text
LearnOne(m, text, y) ==
    LET x  == BagOfWords(text)
        fc == m.feature_counts
    IN  [classes        |-> IF y \in Range(m.classes) THEN m.classes
                            ELSE Append(m.classes, y),
         class_counts   |-> [m.class_counts EXCEPT ![y] = @ + 1],
         feature_counts |->
            [f \in DOMAIN fc \cup DOMAIN x |->
                [c \in Labels |->
                    (IF f \in DOMAIN fc THEN fc[f][c] ELSE 0)
                    + (IF f \in DOMAIN x /\ c = y THEN x[f] ELSE 0)]],
         class_totals   |-> [m.class_totals EXCEPT ![y] = @ + SumOver(x, DOMAIN x)]]

RECURSIVE LikelihoodNum(_, _, _, _)
LikelihoodNum(m, x, c, S) ==
    IF S = {} THEN 1
    ELSE LET f == CHOOSE g \in S : TRUE
             n == (IF f \in DOMAIN m.feature_counts THEN m.feature_counts[f][c] ELSE 0)
                  + alpha
         IN  Pow(n, x[f]) * LikelihoodNum(m, x, c, S \ {f})

\* exp(joint_log_likelihood) of class c is ScoreNum / (ScoreDen * seen records)
ScoreNum(m, x, c) == m.class_counts[c] * LikelihoodNum(m, x, c, DOMAIN x)
ScoreDen(m, x, c) ==
    Pow(m.class_totals[c] + alpha * Cardinality(DOMAIN m.feature_counts),
        SumOver(x, DOMAIN x))

ScoreLess(m, x, a, b) ==
    ScoreNum(m, x, a) * ScoreDen(m, x, b) < ScoreNum(m, x, b) * ScoreDen(m, x, a)

\* faulty variant: an empty model answers a default class instead of None
PredictOne_DefaultClass(m, text) ==
    IF m.classes = <<>> THEN <<pos_val>>
    ELSE LET x == BagOfWords(text)
             i == CHOOSE j \in DOMAIN m.classes :
                    /\ \A k \in DOMAIN m.classes : ~ScoreLess(m, x, m.classes[j], m.classes[k])
                    /\ \A k \in 1..(j - 1) : ScoreLess(m, x, m.classes[k], m.classes[j])
         IN  <<m.classes[i]>>

\* Classifier.predict_one: None for an empty model, else the first class of
\* greatest probability in the order the classes were first learned
PredictOne(m, text) ==
    IF m.classes = <<>> THEN None
    ELSE LET x == BagOfWords(text)
             i == CHOOSE j \in DOMAIN m.classes :
                    /\ \A k \in DOMAIN m.classes : ~ScoreLess(m, x, m.classes[j], m.classes[k])
                    /\ \A k \in 1..(j - 1) : ScoreLess(m, x, m.classes[k], m.classes[j])
         IN  <<m.classes[i]>>

\* ----------------------------------------------------------------- metrics
EmptyMatrix == [t \in Labels |-> [p \in Labels |-> 0]]

\* faulty variant: the cell is set, not incremented
MatrixUpdate_Reset(cm, y_true, p) == [cm EXCEPT ![y_true][p] = 1]

\* faulty variant: the arguments are swapped
MatrixUpdate_Transposed(cm, y_true, p) == [cm EXCEPT ![p][y_true] = @ + 1]

\* ConfusionMatrix.update(y_true, y_pred)
MatrixUpdate(cm, y_true, p) == [cm EXCEPT ![y_true][p] = @ + 1]

TruePositives(cm)  == cm[pos_val][pos_val]
FalsePositives(cm) == SumOver([t \in Labels |-> cm[t][pos_val]], Labels \ {pos_val})
FalseNegatives(cm) == SumOver([p \in Labels |-> cm[pos_val][p]], Labels \ {pos_val})

PrecisionDen(cm) == TruePositives(cm) + FalsePositives(cm)
RecallDen(cm)    == TruePositives(cm) + FalseNegatives(cm)

\* faulty variant: the precision as a percentage
Precision_AsPercent(cm) ==
    IF PrecisionDen(cm) = 0 THEN <<0, 1>>
    ELSE Ratio(100 * TruePositives(cm), PrecisionDen(cm))

\* metrics.Precision(cm, pos_val=0).get(): 0.0 on a zero denominator
Precision(cm) ==
    IF PrecisionDen(cm) = 0 THEN <<0, 1>>
    ELSE Ratio(TruePositives(cm), PrecisionDen(cm))

\* metrics.Recall(cm, pos_val=0).get(): 0.0 on a zero denominator
Recall(cm) ==
    IF RecallDen(cm) = 0 THEN <<0, 1>>
    ELSE Ratio(TruePositives(cm), RecallDen(cm))

SnapshotEvent(cm) ==
    Event(JsonDumps(<<"precision", "recall">>,
                    [precision |-> Precision(cm), recall |-> Recall(cm)]))

\* --------------------------------------------------------------- transport
\* Ensign.ensure_topic_exists
EnsureTopicExists(t) == exists' = exists \cup {t}

\* Ensign.publish: the event is queued and the call returns; the outcome
\* comes back later through on_ack / on_nack
Publish(t, e) ==
    /\ inflight' = [inflight EXCEPT ![t] = Append(@, [id |-> Len(sent[t]) + 1, event |-> e])]
    /\ sent' = [sent EXCEPT ![t] = Append(@, e)]

\* handle_ack: prints the commit time
HandleAck(t) == acks' = [acks EXCEPT ![t] = @ + 1]

\* faulty variant: the failed event is published again
HandleNack_Retry(t, nack) ==
    /\ nacks' = Append(nacks, [topic |-> t, id |-> nack.id])
    /\ inflight' = [inflight EXCEPT ![t] =
                        Append(Tail(@), [id |-> Len(sent[t]) + 1, event |-> nack.event])]
    /\ sent' = [sent EXCEPT ![t] = Append(@, nack.event)]

\* handle_nack: prints the id and the error; it publishes nothing, so the
\* failed event leaves the flight and no event enters it
HandleNack(t, nack) ==
    /\ nacks' = Append(nacks, [topic |-> t, id |-> nack.id])
    /\ inflight' = [inflight EXCEPT ![t] = Tail(@)]
    /\ UNCHANGED sent

\* the transport commits the oldest event in flight and acknowledges it
Ack(t) ==
    /\ inflight[t] # <<>>
    /\ t \in exists
    /\ log' = [log EXCEPT ![t] = Append(@, Head(inflight[t]).event)]
    /\ inflight' = [inflight EXCEPT ![t] = Tail(@)]
    /\ HandleAck(t)
    /\ UNCHANGED <<cliVars, exists, sent, nacks, pubVars, lrnVars, monVars>>

\* the transport rejects the oldest event in flight
Nack(t) ==
    /\ inflight[t] # <<>>
    /\ Len(nacks) < MaxNacks
    /\ HandleNack(t, Head(inflight[t]))
    /\ UNCHANGED <<cliVars, exists, log, acks, pubVars, lrnVars, monVars>>

\* --------------------------------------------------------------- publisher
PubEnsureTopic ==
    /\ pub_pc = "ensure"
    /\ EnsureTopicExists(PipelineTopic)
    /\ pub_pc' = "read"
    /\ UNCHANGED <<cliVars, csv, train_dict, pub_idx, log, inflight, sent, nacks, acks,
                   lrnVars, monVars>>

PubReadCsv ==
    /\ pub_pc = "read"
    /\ train_dict' = csv
    /\ pub_pc' = "loop"
    /\ UNCHANGED <<cliVars, csv, pub_idx, netVars, lrnVars, monVars>>

\* faulty variant: the loop waits for the acknowledgement of the previous publish
PubPublishRecord_AwaitsAck ==
    /\ pub_pc = "loop"
    /\ pub_idx <= Len(train_dict)
    /\ inflight[PipelineTopic] = <<>>
    /\ Publish(PipelineTopic, RecordEvent(train_dict[pub_idx]))
    /\ pub_idx' = pub_idx + 1
    /\ UNCHANGED <<cliVars, csv, train_dict, pub_pc, exists, log, nacks, acks, lrnVars, monVars>>

\* faulty variant: the loop steps over every other record
PubPublishRecord_Skips ==
    /\ pub_pc = "loop"
    /\ pub_idx <= Len(train_dict)
    /\ Publish(PipelineTopic, RecordEvent(train_dict[pub_idx]))
    /\ pub_idx' = pub_idx + 2
    /\ UNCHANGED <<cliVars, csv, train_dict, pub_pc, exists, log, nacks, acks, lrnVars, monVars>>

PubPublishRecord ==
    /\ pub_pc = "loop"
    /\ pub_idx <= Len(train_dict)
    /\ Publish(PipelineTopic, RecordEvent(train_dict[pub_idx]))
    /\ pub_idx' = pub_idx + 1
    /\ UNCHANGED <<cliVars, csv, train_dict, pub_pc, exists, log, nacks, acks, lrnVars, monVars>>

PublisherDone == pub_pc = "loop" /\ pub_idx > Len(train_dict)

Publisher == PubEnsureTopic \/ PubReadCsv \/ PubPublishRecord

\* ------------------------------------------------------------------ learner
LrnEnsureSubTopic ==
    /\ lrn_pc = "ensure_sub"
    /\ EnsureTopicExists(PipelineTopic)
    /\ lrn_pc' = "ensure_pub"
    /\ UNCHANGED <<cliVars, log, inflight, sent, nacks, acks, pubVars, monVars,
                   lrn_pos, record, y_pred, model, confusion_matrix, preds>>

\* faulty variant: the output topic is not ensured
LrnEnsurePubTopic_Skipped ==
    /\ lrn_pc = "ensure_pub"
    /\ lrn_pc' = "wait"
    /\ UNCHANGED <<cliVars, netVars, pubVars, monVars,
                   lrn_pos, record, y_pred, model, confusion_matrix, preds>>

LrnEnsurePubTopic ==
    /\ lrn_pc = "ensure_pub"
    /\ EnsureTopicExists(MetricsTopic)
    /\ lrn_pc' = "wait"
    /\ UNCHANGED <<cliVars, log, inflight, sent, nacks, acks, pubVars, monVars,
                   lrn_pos, record, y_pred, model, confusion_matrix, preds>>

\* faulty variant: the snapshot is published only when a prediction was produced
RunModelPipeline_PublishIfPredicted(event) ==
    LET rec == JsonLoads(event.data)
        p   == PredictOne(model, rec["text"])
        cm  == IF p # None THEN MatrixUpdate(confusion_matrix, rec["sentiment"], p[1])
               ELSE confusion_matrix
    IN  /\ record' = rec
        /\ y_pred' = p
        /\ preds' = Append(preds, p)
        /\ confusion_matrix' = cm
        /\ IF p # None THEN Publish(MetricsTopic, SnapshotEvent(cm))
           ELSE UNCHANGED <<inflight, sent>>
        /\ lrn_pc' = "learn"
        /\ UNCHANGED model

\* faulty variant: the record is learned before the prediction is taken
RunModelPipeline_LearnFirst(event) ==
    LET rec == JsonLoads(event.data)
        m   == LearnOne(model, rec["text"], rec["sentiment"])
        p   == PredictOne(m, rec["text"])
        cm  == IF p # None THEN MatrixUpdate(confusion_matrix, rec["sentiment"], p[1])
               ELSE confusion_matrix
    IN  /\ record' = rec
        /\ y_pred' = p
        /\ preds' = Append(preds, p)
        /\ confusion_matrix' = cm
        /\ Publish(MetricsTopic, SnapshotEvent(cm))
        /\ lrn_pc' = "learn"
        /\ model' = m

\* faulty variant: the exception is swallowed and the loop takes the next event
LrnRaise_Swallowed ==
    /\ lrn_pc' = "wait"
    /\ UNCHANGED <<record, y_pred, preds, confusion_matrix, model, inflight, sent>>

\* faulty variant: the snapshot is published although the event could not be read
LrnRaise_StillPublishes ==
    /\ lrn_pc' = "failed"
    /\ Publish(MetricsTopic, SnapshotEvent(confusion_matrix))
    /\ UNCHANGED <<record, y_pred, preds, confusion_matrix, model>>

\* an exception leaves run_model_pipeline before anything was changed; it
\* propagates through subscribe() and ends the consume loop
LrnRaise ==
    /\ lrn_pc' = "failed"
    /\ UNCHANGED <<record, y_pred, preds, confusion_matrix, model, inflight, sent>>

\* faulty variant: the snapshot is taken before the pair is counted
RunModelPipeline_StaleSnapshot(event) ==
    LET rec == JsonLoads(event.data)
        p   == PredictOne(model, rec["text"])
        cm  == IF p # None THEN MatrixUpdate(confusion_matrix, rec["sentiment"], p[1])
               ELSE confusion_matrix
    IN  /\ record' = rec
        /\ y_pred' = p
        /\ preds' = Append(preds, p)
        /\ confusion_matrix' = cm
        /\ Publish(MetricsTopic, SnapshotEvent(confusion_matrix))
        /\ lrn_pc' = "learn"
        /\ UNCHANGED model

\* run_model_pipeline up to the await of the publish: decode, predict,
\* update the matrix, publish the snapshot.  json.loads raises on a malformed
\* payload, record["text"] and record["sentiment"] raise on a missing field
RunModelPipeline(event) ==
    IF ~Decodable(event.data) THEN LrnRaise
    ELSE LET rec == JsonLoads(event.data) IN
         IF "text" \notin DOMAIN rec THEN LrnRaise
         ELSE LET p == PredictOne(model, rec["text"]) IN
              IF p # None /\ "sentiment" \notin DOMAIN rec
              THEN /\ record' = rec
                   /\ y_pred' = p
                   /\ preds' = Append(preds, p)
                   /\ lrn_pc' = "failed"
                   /\ UNCHANGED <<confusion_matrix, model, inflight, sent>>
              ELSE LET cm == IF p # None
                             THEN MatrixUpdate(confusion_matrix, rec["sentiment"], p[1])
                             ELSE confusion_matrix
                   IN  /\ record' = rec
                       /\ y_pred' = p
                       /\ preds' = Append(preds, p)
                       /\ confusion_matrix' = cm
                       /\ Publish(MetricsTopic, SnapshotEvent(cm))
                       /\ lrn_pc' = "learn"
                       /\ UNCHANGED model

\* faulty variant: the next event is taken while the previous one still
\* waits for its learn step
LrnReceive_Interleaves ==
    /\ lrn_pc \in {"wait", "learn"}
    /\ lrn_pos < Len(log[PipelineTopic])
    /\ lrn_pos' = lrn_pos + 1
    /\ RunModelPipeline(log[PipelineTopic][lrn_pos + 1])
    /\ UNCHANGED <<cliVars, exists, log, nacks, acks, pubVars, monVars>>

LrnReceive ==
    /\ lrn_pc = "wait"
    /\ lrn_pos < Len(log[PipelineTopic])
    /\ lrn_pos' = lrn_pos + 1
    /\ RunModelPipeline(log[PipelineTopic][lrn_pos + 1])
    /\ UNCHANGED <<cliVars, exists, log, nacks, acks, pubVars, monVars>>

\* faulty variant: the record is learned only when a prediction was produced
LearnStep_OnlyIfPredicted ==
    /\ model' = IF y_pred # None THEN LearnOne(model, record["text"], record["sentiment"])
                ELSE model
    /\ lrn_pc' = "wait"

\* faulty variant: the record is learned only once its snapshot was acknowledged
LearnStep_SkipsWhenUnacked ==
    /\ model' = IF inflight[MetricsTopic] = <<>>
                THEN LearnOne(model, record["text"], record["sentiment"])
                ELSE model
    /\ lrn_pc' = "wait"

\* run_model_pipeline after the publish returned: learn from the record;
\* record["sentiment"] raises on a missing field before learn_one is entered
LearnStep ==
    IF "sentiment" \in DOMAIN record
    THEN /\ model' = LearnOne(model, record["text"], record["sentiment"])
         /\ lrn_pc' = "wait"
    ELSE /\ lrn_pc' = "failed"
         /\ UNCHANGED model

LrnLearn ==
    /\ lrn_pc = "learn"
    /\ LearnStep
    /\ UNCHANGED <<cliVars, netVars, pubVars, monVars, lrn_pos, record, y_pred,
                   confusion_matrix, preds>>

Learner == LrnEnsureSubTopic \/ LrnEnsurePubTopic \/ LrnReceive \/ LrnLearn

\* ------------------------------------------------------------------ monitor
\* faulty variant: a value equal to the threshold warns too
CheckMetrics_NotStrict(event, t) ==
    LET metric_info == JsonLoads(event.data)
        precision   == metric_info["precision"]
        recall      == metric_info["recall"]
    IN  (IF ~Less(t, precision) THEN <<[metric |-> "Precision", value |-> precision]>> ELSE <<>>)
        \o (IF ~Less(t, recall) THEN <<[metric |-> "Recall", value |-> recall]>> ELSE <<>>)

\* MetricsSubscriber.check_metrics: the warnings one snapshot raises
CheckMetrics(event, t) ==
    LET metric_info == JsonLoads(event.data)
        precision   == metric_info["precision"]
        recall      == metric_info["recall"]
    IN  (IF Less(precision, t) THEN <<[metric |-> "Precision", value |-> precision]>> ELSE <<>>)
        \o (IF Less(recall, t) THEN <<[metric |-> "Recall", value |-> recall]>> ELSE <<>>)

MonEnsureTopic ==
    /\ mon_pc = "ensure"
    /\ EnsureTopicExists(MetricsTopic)
    /\ mon_pc' = "wait"
    /\ UNCHANGED <<cliVars, log, inflight, sent, nacks, acks, pubVars, lrnVars,
                   mon_pos, threshold, warnings>>

\* check_metrics raises before any warning: json.loads on a malformed payload,
\* metric_info["precision"] or metric_info["recall"] on a missing member
CheckMetricsRaises(event) ==
    \/ ~Decodable(event.data)
    \/ ~({"precision", "recall"} \subseteq DOMAIN JsonLoads(event.data))

\* faulty variant: a warning needs the previous snapshot to have breached too
MonReceive_ConsecutiveBreaches ==
    /\ mon_pc = "wait"
    /\ mon_pos < Len(log[MetricsTopic])
    /\ mon_pos' = mon_pos + 1
    /\ LET prev == IF mon_pos = 0 THEN <<>>
                   ELSE CheckMetrics(log[MetricsTopic][mon_pos], threshold)
       IN  warnings' = warnings \o
                (IF prev # <<>> THEN CheckMetrics(log[MetricsTopic][mon_pos + 1], threshold)
                 ELSE <<>>)
    /\ UNCHANGED <<cliVars, netVars, pubVars, lrnVars, mon_pc, threshold>>

\* faulty variant: the monitor publishes the snapshot it warned about
MonReceive_PublishesAlert ==
    /\ mon_pc = "wait"
    /\ mon_pos < Len(log[MetricsTopic])
    /\ mon_pos' = mon_pos + 1
    /\ warnings' = warnings \o CheckMetrics(log[MetricsTopic][mon_pos + 1], threshold)
    /\ Publish(MetricsTopic, log[MetricsTopic][mon_pos + 1])
    /\ UNCHANGED <<cliVars, exists, log, nacks, acks, pubVars, lrnVars, mon_pc, threshold>>

MonReceive ==
    /\ mon_pc = "wait"
    /\ mon_pos < Len(log[MetricsTopic])
    /\ mon_pos' = mon_pos + 1
    /\ IF CheckMetricsRaises(log[MetricsTopic][mon_pos + 1])
       THEN /\ mon_pc' = "failed"
            /\ UNCHANGED warnings
       ELSE /\ warnings' = warnings \o CheckMetrics(log[MetricsTopic][mon_pos + 1], threshold)
            /\ UNCHANGED mon_pc
    /\ UNCHANGED <<cliVars, netVars, pubVars, lrnVars, threshold>>

Monitor == MonEnsureTopic \/ MonReceive

\* --------------------------------------------------------------- the system
Init ==
    /\ csv \in SeqsUpTo(CsvRows, MaxRecords)
    /\ train_dict = <<>>
    /\ pub_pc = "ensure"
    /\ pub_idx = 1
    /\ exists = {}
    /\ log = [t \in TopicNames |-> <<>>]
    /\ inflight = [t \in TopicNames |-> <<>>]
    /\ sent = [t \in TopicNames |-> <<>>]
    /\ nacks = <<>>
    /\ acks = [t \in TopicNames |-> 0]
    /\ lrn_pc = "ensure_sub"
    /\ lrn_pos = 0
    /\ record = <<>>
    /\ y_pred = None
    /\ model = EmptyModel
    /\ confusion_matrix = EmptyMatrix
    /\ preds = <<>>
    /\ mon_pc = "ensure"
    /\ mon_pos = 0
    /\ threshold = DefaultThreshold
    /\ warnings = <<>>
    /\ argv = <<>>
    /\ main_pc = "done"
    /\ stdout = <<>>

Transport == \E t \in TopicNames : Ack(t) \/ Nack(t)

Next == Publisher \/ Learner \/ Monitor \/ Transport

Spec == Init /\ [][Next]_vars

\* ------------------------------------------------- the publisher on its own
\* `python river_sentiment_analysis.py publish` with no consumer running; the
\* flow runs publish() to completion, the transport answers when it likes
PubNext == Publisher \/ Ack(PipelineTopic) \/ Nack(PipelineTopic)

PubFairSpec == Init /\ [][PubNext]_vars /\ WF_vars(Publisher)

\* --------------------------------------------------- the monitor on its own
\* MetricsSubscriber fed by any conforming producer of river_metrics
MetricValues == {<<0, 1>>, <<11, 20>>, <<3, 5>>, <<4, 5>>}

ProducerPublish ==
    /\ Len(sent[MetricsTopic]) < MaxSnapshots
    /\ \E p \in MetricValues, r \in MetricValues :
          Publish(MetricsTopic,
                  Event(JsonDumps(<<"precision", "recall">>,
                                  [precision |-> p, recall |-> r])))
    /\ UNCHANGED <<cliVars, exists, log, nacks, acks, pubVars, lrnVars, monVars>>

MonInit ==
    /\ csv = <<>>
    /\ train_dict = <<>>
    /\ pub_pc = "ensure"
    /\ pub_idx = 1
    /\ exists = {}
    /\ log = [t \in TopicNames |-> <<>>]
    /\ inflight = [t \in TopicNames |-> <<>>]
    /\ sent = [t \in TopicNames |-> <<>>]
    /\ nacks = <<>>
    /\ acks = [t \in TopicNames |-> 0]
    /\ lrn_pc = "ensure_sub"
    /\ lrn_pos = 0
    /\ record = <<>>
    /\ y_pred = None
    /\ model = EmptyModel
    /\ confusion_matrix = EmptyMatrix
    /\ preds = <<>>
    /\ mon_pc = "ensure"
    /\ mon_pos = 0
    /\ threshold \in Thresholds
    /\ warnings = <<>>
    /\ argv = <<>>
    /\ main_pc = "done"
    /\ stdout = <<>>

MonNext == ProducerPublish \/ Ack(MetricsTopic) \/ Nack(MetricsTopic) \/ Monitor

MonSpec == MonInit /\ [][MonNext]_vars

\* ---------------------------------------------------------- the entry point
UsageLine == "Usage: python river_sentiment_analysis.py [publish|subscribe|metrics]"

ArgWords == {"river_sentiment_analysis.py", "publish", "subscribe", "metrics", "help"}

\* sys.argv: the program name and up to MaxArgs - 1 arguments
Argvs == SeqsUpTo(ArgWords, MaxArgs) \ {<<>>}

\* the three flows: each builds its component and runs it from its first step
run_yelp_data_publisher ==
    /\ pub_pc' = "ensure"
    /\ UNCHANGED <<lrn_pc, mon_pc, stdout>>

run_yelp_data_subscriber ==
    /\ lrn_pc' = "ensure_sub"
    /\ UNCHANGED <<pub_pc, mon_pc, stdout>>

run_metrics_subscriber ==
    /\ mon_pc' = "ensure"
    /\ UNCHANGED <<pub_pc, lrn_pc, stdout>>

PrintUsage ==
    /\ stdout' = Append(stdout, UsageLine)
    /\ UNCHANGED <<pub_pc, lrn_pc, mon_pc>>

\* faulty variant: an unknown argument falls through to the monitor
Main_DefaultsToMetrics ==
    /\ main_pc = "start"
    /\ main_pc' = "done"
    /\ IF Len(argv) > 1
       THEN IF argv[2] = "publish" THEN run_yelp_data_publisher
            ELSE IF argv[2] = "subscribe" THEN run_yelp_data_subscriber
            ELSE run_metrics_subscriber
       ELSE PrintUsage
    /\ UNCHANGED <<argv, csv, train_dict, pub_idx, netVars, lrn_pos, record, y_pred,
                   model, confusion_matrix, preds, mon_pos, threshold, warnings>>

\* __main__: sys.argv[1] is argv[2] here (sequences start at 1)
Main ==
    /\ main_pc = "start"
    /\ main_pc' = "done"
    /\ IF Len(argv) > 1
       THEN IF argv[2] = "publish" THEN run_yelp_data_publisher
            ELSE IF argv[2] = "subscribe" THEN run_yelp_data_subscriber
            ELSE IF argv[2] = "metrics" THEN run_metrics_subscriber
            ELSE PrintUsage
       ELSE PrintUsage
    /\ UNCHANGED <<argv, csv, train_dict, pub_idx, netVars, lrn_pos, record, y_pred,
                   model, confusion_matrix, preds, mon_pos, threshold, warnings>>

\* one invocation of the script, before any component was built
CliInit ==
    /\ argv \in Argvs
    /\ main_pc = "start"
    /\ stdout = <<>>
    /\ csv = <<>>
    /\ train_dict = <<>>
    /\ pub_pc = "off"
    /\ pub_idx = 1
    /\ exists = {}
    /\ log = [t \in TopicNames |-> <<>>]
    /\ inflight = [t \in TopicNames |-> <<>>]
    /\ sent = [t \in TopicNames |-> <<>>]
    /\ nacks = <<>>
    /\ acks = [t \in TopicNames |-> 0]
    /\ lrn_pc = "off"
    /\ lrn_pos = 0
    /\ record = <<>>
    /\ y_pred = None
    /\ model = EmptyModel
    /\ confusion_matrix = EmptyMatrix
    /\ preds = <<>>
    /\ mon_pc = "off"
    /\ mon_pos = 0
    /\ threshold = DefaultThreshold
    /\ warnings = <<>>

CliSpec == CliInit /\ [][Main]_vars

\* ------------------------------------- the consumers fed by any producer
\* the learner and the monitor with producers that may publish anything to
\* their topics: well-formed records, payloads that are not JSON, objects
\* that lack a member
BadPayload == <<<<"{">>>>

RawPipelineEvents ==
    {RecordEvent([text |-> <<"bad">>, sentiment |-> 0]),
     RecordEvent([text |-> <<"Good", "good">>, sentiment |-> 1]),
     Event(BadPayload),
     Event(JsonDumps(<<"sentiment">>, [sentiment |-> 0])),
     Event(JsonDumps(<<"text">>, [text |-> <<"bad">>]))}

RawMetricsEvents == {Event(BadPayload)}

RawProducePipeline ==
    /\ Len(sent[PipelineTopic]) < MaxRaw
    /\ \E e \in RawPipelineEvents : Publish(PipelineTopic, e)
    /\ UNCHANGED <<cliVars, exists, log, nacks, acks, pubVars, lrnVars, monVars>>

RawProduceMetrics ==
    /\ Cardinality({i \in DOMAIN sent[MetricsTopic] :
                        sent[MetricsTopic][i] \in RawMetricsEvents}) < MaxBadSnapshots
    /\ \E e \in RawMetricsEvents : Publish(MetricsTopic, e)
    /\ UNCHANGED <<cliVars, exists, log, nacks, acks, pubVars, lrnVars, monVars>>

FaultInit ==
    /\ csv = <<>>
    /\ train_dict = <<>>
    /\ pub_pc = "off"
    /\ pub_idx = 1
    /\ exists = {}
    /\ log = [t \in TopicNames |-> <<>>]
    /\ inflight = [t \in TopicNames |-> <<>>]
    /\ sent = [t \in TopicNames |-> <<>>]
    /\ nacks = <<>>
    /\ acks = [t \in TopicNames |-> 0]
    /\ lrn_pc = "ensure_sub"
    /\ lrn_pos = 0
    /\ record = <<>>
    /\ y_pred = None
    /\ model = EmptyModel
    /\ confusion_matrix = EmptyMatrix
    /\ preds = <<>>
    /\ mon_pc = "ensure"
    /\ mon_pos = 0
    /\ threshold = DefaultThreshold
    /\ warnings = <<>>
    /\ argv = <<>>
    /\ main_pc = "done"
    /\ stdout = <<>>

FaultNext ==
    \/ RawProducePipeline
    \/ RawProduceMetrics
    \/ \E t \in TopicNames : Ack(t)
    \/ Learner
    \/ Monitor

FaultSpec == FaultInit /\ [][FaultNext]_vars

\* =================================================================== claims
\* the i-th record the learner consumed, decoded
Consumed(i) == JsonLoads(log[PipelineTopic][i].data)

\* the model that has learned the first n consumed records, in order
RECURSIVE LearnAll(_)
LearnAll(n) ==
    IF n = 0 THEN EmptyModel
    ELSE LearnOne(LearnAll(n - 1), Consumed(n)["text"], Consumed(n)["sentiment"])

\* the number of consumed events whose learn step has run
Learned == IF lrn_pc = "learn" THEN lrn_pos - 1 ELSE lrn_pos

NonNullPreds == Cardinality({i \in DOMAIN preds : preds[i] # None})

MatrixTotal == SumOver([t \in Labels |-> SumOver(confusion_matrix[t], Labels)], Labels)

LastSnapshot == JsonLoads(sent[MetricsTopic][Len(sent[MetricsTopic])].data)

InUnit(r) == r[2] > 0 /\ 0 <= r[1] /\ r[1] <= r[2]

\* C1 (as stated): the number of snapshots published to the output topic equals
\* the number of consumed events whose prediction was non-null.
C1_OnePerPredictedEvent == Len(sent[MetricsTopic]) = NonNullPreds

\* C1 (amended): exactly one snapshot is published per consumed event, whether
\* its prediction was null or not: the number of snapshots published equals the
\* number of events consumed.
C1_OnePerConsumedEvent ==
    /\ Len(sent[MetricsTopic]) = lrn_pos
    /\ Len(preds) = lrn_pos

C1_Witness ==
    /\ lrn_pos = 2
    /\ preds[1] = None
    /\ preds[2] # None
    /\ Len(sent[MetricsTopic]) = 2

\* C2: the model changes only in the learn step of the record in hand, after
\* the prediction for that record was taken from the model that had not seen
\* it and after the snapshot for that record was published.
C2_PredictPublishLearn ==
    [][model' # model =>
        /\ lrn_pc = "learn"
        /\ Len(preds) = lrn_pos
        /\ preds[lrn_pos] = PredictOne(model, Consumed(lrn_pos)["text"])
        /\ Len(sent[MetricsTopic]) = lrn_pos
        /\ sent' = sent
        /\ model' = LearnOne(model, Consumed(lrn_pos)["text"], Consumed(lrn_pos)["sentiment"])
    ]_vars

C2_Witness ==
    /\ lrn_pc = "wait"
    /\ lrn_pos = 2
    /\ preds[2] # None
    /\ SumOver(model.class_counts, Labels) = 2

\* C3: every consumed event causes exactly one learn step with its text and
\* label, null prediction or not: the model is the one that learned exactly
\* the fully processed records, in order.
C3_LearnsEveryRecord ==
    /\ model = LearnAll(Learned)
    /\ SumOver(model.class_counts, Labels) = Learned

C3_Witness ==
    /\ lrn_pc = "wait"
    /\ lrn_pos = 3
    /\ preds[1] = None
    /\ SumOver(model.class_counts, Labels) = 3

\* C4: no confusion-matrix count ever decreases, and the counts sum to the
\* number of non-null predictions made so far.
C4_MatrixMonotoneAndTotal ==
    /\ [](MatrixTotal = NonNullPreds)
    /\ [][\A t \in Labels, p \in Labels :
            confusion_matrix'[t][p] >= confusion_matrix[t][p]]_vars

C4_Witness ==
    /\ MatrixTotal = 2
    /\ Len(preds) = 3
    /\ \E t \in Labels, p \in Labels : confusion_matrix[t][p] = 2

\* C5: for each snapshot the monitor handles, a precision warning is logged
\* exactly when precision < threshold and a recall warning exactly when
\* recall < threshold, each independently of the other; a value equal to the
\* threshold raises none.
C5_WarnsStrictlyBelow ==
    [][mon_pos' = mon_pos + 1 =>
        LET snap   == JsonLoads(log[MetricsTopic][mon_pos'].data)
            raised == SubSeq(warnings', Len(warnings) + 1, Len(warnings'))
            lowP   == snap["precision"][1] * threshold[2] < threshold[1] * snap["precision"][2]
            lowR   == snap["recall"][1] * threshold[2] < threshold[1] * snap["recall"][2]
            nP     == Cardinality({i \in DOMAIN raised : raised[i].metric = "Precision"})
            nR     == Cardinality({i \in DOMAIN raised : raised[i].metric = "Recall"})
        IN  /\ SubSeq(warnings', 1, Len(warnings)) = warnings
            /\ nP = (IF lowP THEN 1 ELSE 0)
            /\ nR = (IF lowR THEN 1 ELSE 0)
            /\ Len(raised) = nP + nR
            /\ \A i \in DOMAIN raised :
                  raised[i].value = snap[IF raised[i].metric = "Precision"
                                         THEN "precision" ELSE "recall"]
    ]_vars

C5_Witness ==
    /\ threshold = DefaultThreshold
    /\ mon_pos = 2
    /\ JsonLoads(log[MetricsTopic][1].data) = [precision |-> <<3, 5>>, recall |-> <<3, 5>>]
    /\ JsonLoads(log[MetricsTopic][2].data) = [precision |-> <<11, 20>>, recall |-> <<4, 5>>]
    /\ warnings = <<[metric |-> "Precision", value |-> <<11, 20>>]>>

\* C6 (as stated): the event processed by a learner with an empty model yields
\* a null prediction and zero published snapshots.
C6_ColdStartPublishesNothing ==
    (lrn_pos = 1 /\ lrn_pc = "learn") =>
        (y_pred = None /\ Len(sent[MetricsTopic]) = 0)

\* C6 (amended): the event processed by a learner with an empty model yields a
\* null prediction, leaves the confusion matrix untouched, publishes exactly
\* one snapshot (precision 0, recall 0) and is learned afterwards.
C6_ColdStart ==
    /\ (lrn_pos >= 1 /\ model = EmptyModel) =>
            /\ lrn_pc = "learn"
            /\ lrn_pos = 1
            /\ y_pred = None
            /\ confusion_matrix = EmptyMatrix
            /\ Len(sent[MetricsTopic]) = 1
            /\ LastSnapshot = [precision |-> <<0, 1>>, recall |-> <<0, 1>>]
    /\ (lrn_pos = 1 /\ lrn_pc = "wait") =>
            /\ preds = <<None>>
            /\ model = LearnOne(EmptyModel, Consumed(1)["text"], Consumed(1)["sentiment"])
            /\ model # EmptyModel

C6_Witness ==
    /\ lrn_pos = 1
    /\ lrn_pc = "wait"
    /\ preds = <<None>>
    /\ Len(sent[MetricsTopic]) = 1
    /\ model.classes # <<>>

InFlightEvents(t) == [i \in 1..Len(inflight[t]) |-> inflight[t][i].event]

NoNackOn(t) == \A i \in DOMAIN nacks : nacks[i].topic # t

\* C7: the publisher hands the transport exactly one event per source record,
\* in source order; when the transport loses none (no nack on the input
\* topic) the topic holds them in that order and the learner decodes exactly
\* the source records, in the original order.
C7_OneEventPerRecordInOrder ==
    /\ train_dict \in {<<>>, csv}
    /\ pub_idx - 1 <= Len(train_dict)
    /\ sent[PipelineTopic] = [i \in 1..(pub_idx - 1) |-> RecordEvent(train_dict[i])]
    /\ NoNackOn(PipelineTopic) =>
            /\ log[PipelineTopic] \o InFlightEvents(PipelineTopic) = sent[PipelineTopic]
            /\ \A i \in 1..Len(log[PipelineTopic]) : Consumed(i) = csv[i]
    /\ lrn_pos >= 1 => record = Consumed(lrn_pos)
    /\ lrn_pos <= Len(log[PipelineTopic])

C7_Witness ==
    /\ Len(csv) = 3
    /\ csv[1] # csv[2]
    /\ csv[2] # csv[3]
    /\ PublisherDone
    /\ nacks = <<>>
    /\ lrn_pos = 3
    /\ \A i \in 1..3 : Consumed(i) = csv[i]

\* C8: in the snapshot just emitted, precision lies in [0,1] when the
\* predicted-0 count is nonzero and recall lies in [0,1] when the true-0 count
\* is nonzero (the matrix is untouched between the emission and the learn step).
C8_SnapshotInUnitInterval ==
    lrn_pc = "learn" =>
        /\ PrecisionDen(confusion_matrix) # 0 => InUnit(LastSnapshot["precision"])
        /\ RecallDen(confusion_matrix) # 0 => InUnit(LastSnapshot["recall"])

C8_Witness ==
    /\ lrn_pc = "learn"
    /\ PrecisionDen(confusion_matrix) = 2
    /\ RecallDen(confusion_matrix) = 1
    /\ LastSnapshot = [precision |-> <<1, 2>>, recall |-> <<1, 1>>]

\* C9: the publisher's loop can publish its next record whatever is still in
\* flight, and it reaches the end of the records even when no acknowledgement
\* ever arrives.
C9_LoopDoesNotWaitForAck ==
    /\ []((pub_pc = "loop" /\ pub_idx <= Len(train_dict)) => ENABLED PubPublishRecord)
    /\ <>PublisherDone

C9_Witness ==
    /\ Len(inflight[PipelineTopic]) = 3
    /\ log[PipelineTopic] = <<>>
    /\ acks[PipelineTopic] = 0
    /\ nacks = <<>>
    /\ PublisherDone

\* C10: a nack is reported once through handle_nack and changes nothing else:
\* no event is published again and neither loop moves or stops; every record
\* and every consumed event is still published exactly once.
C10_NackOnlyReported ==
    /\ [](Len(sent[PipelineTopic]) = pub_idx - 1 /\ Len(sent[MetricsTopic]) = lrn_pos)
    /\ [][Len(nacks') > Len(nacks) =>
            /\ Len(nacks') = Len(nacks) + 1
            /\ sent' = sent
            /\ \A t \in TopicNames : Len(inflight'[t]) <= Len(inflight[t])
            /\ log' = log
            /\ pub_pc' = pub_pc /\ pub_idx' = pub_idx
            /\ lrn_pc' = lrn_pc /\ lrn_pos' = lrn_pos /\ model' = model
            /\ mon_pc' = mon_pc /\ mon_pos' = mon_pos
       ]_vars

C10_Witness ==
    /\ nacks = <<[topic |-> PipelineTopic, id |-> 1]>>
    /\ Len(csv) = 3
    /\ PublisherDone
    /\ Len(sent[PipelineTopic]) = 3
    /\ lrn_pos = 2
    /\ record = csv[3]

\* the snapshots the learner itself published (a producer's are not snapshots)
LearnerSnapshots ==
    Cardinality({i \in DOMAIN sent[MetricsTopic] :
                    sent[MetricsTopic][i] \notin RawMetricsEvents})

\* the matrix that counted the first n consumed events, from the predictions
\* logged for them
CountedMatrix(n) ==
    [t \in Labels |-> [p \in Labels |->
        Cardinality({i \in 1..n : preds[i] = <<p>> /\ Consumed(i)["sentiment"] = t})]]

\* C11: a payload that cannot be deserialized ends the consume loop it reaches:
\* the learner (the monitor) has failed on it, it is the last event that
\* component consumed, and a failed component never moves again.
C11_MalformedEndsTheLoop ==
    /\ [](\A i \in 1..lrn_pos :
            ~Decodable(log[PipelineTopic][i].data) => (lrn_pc = "failed" /\ i = lrn_pos))
    /\ [](\A j \in 1..mon_pos :
            ~Decodable(log[MetricsTopic][j].data) => (mon_pc = "failed" /\ j = mon_pos))
    /\ [][/\ lrn_pc = "failed" => lrnVars' = lrnVars
          /\ mon_pc = "failed" => monVars' = monVars]_vars

C11_Witness ==
    /\ lrn_pc = "failed"
    /\ lrn_pos = 1
    /\ Len(log[PipelineTopic]) = 2
    /\ ~Decodable(log[PipelineTopic][1].data)
    /\ Decodable(log[PipelineTopic][2].data)
    /\ model = EmptyModel
    /\ mon_pc = "failed"
    /\ mon_pos = 1
    /\ Len(log[MetricsTopic]) = 2
    /\ ~Decodable(log[MetricsTopic][1].data)
    /\ warnings = <<>>

\* C13: `publish` starts the publisher, `subscribe` the learner, `metrics` the
\* monitor, and nothing else is started; any other first argument, or none,
\* prints the usage line and starts no component.
C13_EntryPointDispatch ==
    main_pc = "done" /\ argv # <<>> =>
        LET arg   == IF Len(argv) > 1 THEN argv[2] ELSE ""
            known == arg \in {"publish", "subscribe", "metrics"}
        IN  /\ pub_pc = (IF arg = "publish" THEN "ensure" ELSE "off")
            /\ lrn_pc = (IF arg = "subscribe" THEN "ensure_sub" ELSE "off")
            /\ mon_pc = (IF arg = "metrics" THEN "ensure" ELSE "off")
            /\ stdout = (IF known THEN <<>> ELSE <<UsageLine>>)

C13_Witness ==
    /\ main_pc = "done"
    /\ argv = <<"river_sentiment_analysis.py", "help", "publish">>
    /\ stdout = <<UsageLine>>
    /\ pub_pc = "off" /\ lrn_pc = "off" /\ mon_pc = "off"

\* C20 (as stated): when the processing of an event has failed, that event
\* changed neither the matrix nor the model and no snapshot was published for it.
C20_FailedEventLeavesNoTrace ==
    lrn_pc = "failed" =>
        /\ model = LearnAll(lrn_pos - 1)
        /\ confusion_matrix = CountedMatrix(lrn_pos - 1)
        /\ LearnerSnapshots = lrn_pos - 1

\* the failed event had a text and no sentiment and met an empty model: its
\* prediction was null, so nothing read the sentiment before the learn step
ColdStartWithoutSentiment ==
    /\ Decodable(log[PipelineTopic][lrn_pos].data)
    /\ "text" \in DOMAIN Consumed(lrn_pos)
    /\ "sentiment" \notin DOMAIN Consumed(lrn_pos)
    /\ model = EmptyModel

\* C20 (amended): the failed event changed neither the matrix nor the model,
\* and no snapshot was published for it, except for an event that only lacks
\* `sentiment` and meets an empty model: its snapshot is published before the
\* learn step fails.
C20_FailedEventChangesNoCounts ==
    lrn_pc = "failed" =>
        /\ model = LearnAll(lrn_pos - 1)
        /\ confusion_matrix = CountedMatrix(lrn_pos - 1)
        /\ LearnerSnapshots = lrn_pos - 1 + (IF ColdStartWithoutSentiment THEN 1 ELSE 0)

C20_Witness ==
    /\ lrn_pc = "failed"
    /\ lrn_pos = 2
    /\ "sentiment" \notin DOMAIN record
    /\ y_pred # None
    /\ LearnerSnapshots = 1
    /\ model = LearnAll(1)

\* ---- the learner as a function of the records it consumed, in their order
ConsumedSeq == [i \in 1..lrn_pos |-> Consumed(i)]

RECURSIVE ModelOf(_, _)
ModelOf(rs, n) ==
    IF n = 0 THEN EmptyModel
    ELSE LearnOne(ModelOf(rs, n - 1), rs[n]["text"], rs[n]["sentiment"])

RECURSIVE MatrixOf(_, _)
MatrixOf(rs, n) ==
    IF n = 0 THEN EmptyMatrix
    ELSE LET p == PredictOne(ModelOf(rs, n - 1), rs[n]["text"])
         IN  IF p = None THEN MatrixOf(rs, n - 1)
             ELSE MatrixUpdate(MatrixOf(rs, n - 1), rs[n]["sentiment"], p[1])

SnapshotsOf(rs) == [i \in 1..Len(rs) |-> SnapshotEvent(MatrixOf(rs, i))]

SwapAt(rs, i) ==
    [k \in 1..Len(rs) |-> IF k = i THEN rs[i + 1] ELSE IF k = i + 1 THEN rs[i] ELSE rs[k]]

\* C12: the model, the matrix and the snapshots emitted are a function of the
\* consumed records in their order alone, whatever the publisher, the
\* transport and the monitor did in between.  (Order-sensitivity is the
\* witness: a run whose third snapshot differs from the one the same records
\* give with two adjacent, differently labelled records swapped.)
C12_FunctionOfTheEventOrder ==
    /\ model = ModelOf(ConsumedSeq, Learned)
    /\ confusion_matrix = MatrixOf(ConsumedSeq, lrn_pos)
    /\ sent[MetricsTopic] = SnapshotsOf(ConsumedSeq)

C12_Witness ==
    /\ lrn_pos = 3
    /\ lrn_pc = "wait"
    /\ sent[MetricsTopic] = SnapshotsOf(ConsumedSeq)
    /\ \E i \in 1..2 :
          /\ ConsumedSeq[i]["sentiment"] # ConsumedSeq[i + 1]["sentiment"]
          /\ SnapshotsOf(SwapAt(ConsumedSeq, i))[3] # sent[MetricsTopic][3]

\* C14: the snapshot published for an event with a non-null prediction is
\* computed from the matrix that has counted that event's pair and no later
\* one, with positive class 0: precision = n(true 0, predicted 0) /
\* n(predicted 0), recall = n(true 0, predicted 0) / n(true 0).
C14_SnapshotAfterCount ==
    (lrn_pc = "learn" /\ y_pred # None) =>
        LET n(t, p) == Cardinality({i \in 1..lrn_pos :
                            preds[i] = <<p>> /\ Consumed(i)["sentiment"] = t})
            prec    == LastSnapshot["precision"]
            rec     == LastSnapshot["recall"]
        IN  /\ \A t \in Labels, p \in Labels : confusion_matrix[t][p] = n(t, p)
            /\ Len(sent[MetricsTopic]) = lrn_pos
            /\ n(0, 0) + n(1, 0) # 0 =>
                    (prec[2] > 0 /\ prec[1] * (n(0, 0) + n(1, 0)) = prec[2] * n(0, 0))
            /\ n(0, 0) + n(0, 1) # 0 =>
                    (rec[2] > 0 /\ rec[1] * (n(0, 0) + n(0, 1)) = rec[2] * n(0, 0))

C14_Witness ==
    /\ lrn_pc = "learn"
    /\ lrn_pos = 3
    /\ y_pred = <<0>>
    /\ record["sentiment"] = 1
    /\ LastSnapshot = [precision |-> <<1, 2>>, recall |-> <<1, 1>>]

\* C15: an event is taken only when the previous one has been learned: the
\* prediction for the (k+1)-th consumed event is the one of the model that
\* learned exactly the first k, whatever acknowledgements are still pending.
C15_OneEventAtATime ==
    /\ [](/\ Len(preds) = lrn_pos
           /\ \A i \in 1..lrn_pos :
                preds[i] = PredictOne(LearnAll(i - 1), Consumed(i)["text"]))
    /\ [][lrn_pos' # lrn_pos =>
            /\ lrn_pc = "wait"
            /\ lrn_pos' = lrn_pos + 1
            /\ model = LearnAll(lrn_pos)]_vars

C15_Witness ==
    /\ lrn_pos = 2
    /\ preds[2] # None
    /\ Len(inflight[MetricsTopic]) = 2
    /\ acks[MetricsTopic] = 0

\* C16: an event with a null prediction leaves every count of the matrix as it
\* was and goes on to the learn step; the matrix changes only when an event
\* with a non-null prediction is taken, and then the (true label, predicted
\* label) cell grows by one and no other cell changes.
C16_MatrixFrame ==
    /\ [][lrn_pos' = lrn_pos + 1 =>
            LET p == preds'[lrn_pos']
                r == Consumed(lrn_pos')
            IN  /\ lrn_pc' = "learn"
                /\ \A t \in Labels, q \in Labels :
                      confusion_matrix'[t][q] = confusion_matrix[t][q]
                          + (IF p # None /\ t = r["sentiment"] /\ q = p[1] THEN 1 ELSE 0)
       ]_vars
    /\ [][confusion_matrix' # confusion_matrix =>
            (lrn_pos' = lrn_pos + 1 /\ preds'[lrn_pos'] # None)]_vars

C16_Witness ==
    /\ lrn_pos = 2
    /\ lrn_pc = "wait"
    /\ preds[1] = None
    /\ confusion_matrix[1][0] = 1
    /\ MatrixTotal = 1
    /\ SumOver(model.class_counts, Labels) = 2

RECURSIVE WarningsFor(_)
WarningsFor(n) ==
    IF n = 0 THEN <<>>
    ELSE WarningsFor(n - 1) \o CheckMetrics(log[MetricsTopic][n], threshold)

\* C18: the monitor keeps nothing between snapshots: its threshold never
\* changes, and the warnings logged are, snapshot by snapshot, those that the
\* snapshot and the threshold give on their own.
C18_MonitorMemoryless ==
    /\ [](warnings = WarningsFor(mon_pos))
    /\ [][threshold' = threshold]_vars

C18_Witness ==
    /\ threshold = DefaultThreshold
    /\ mon_pos = 2
    /\ JsonLoads(log[MetricsTopic][1].data) = [precision |-> <<4, 5>>, recall |-> <<4, 5>>]
    /\ JsonLoads(log[MetricsTopic][2].data) = [precision |-> <<0, 1>>, recall |-> <<0, 1>>]
    /\ Len(warnings) = 2

\* C19: only a publisher step adds to the input topic, only a learner step
\* adds to the output topic, a monitor step publishes nothing, and the model
\* and the matrix change only in a step of the learner's consume loop.
C19_OneWayFlowSingleWriter ==
    [][/\ sent'[PipelineTopic] # sent[PipelineTopic] =>
            (pub_idx' = pub_idx + 1 /\ lrnVars' = lrnVars /\ monVars' = monVars)
       /\ sent'[MetricsTopic] # sent[MetricsTopic] =>
            (lrn_pos' = lrn_pos + 1 /\ pubVars' = pubVars /\ monVars' = monVars)
       /\ monVars' # monVars =>
            (sent' = sent /\ inflight' = inflight /\ log' = log
             /\ pubVars' = pubVars /\ lrnVars' = lrnVars)
       /\ (model' # model \/ confusion_matrix' # confusion_matrix) =>
            (lrn_pc \in {"wait", "learn"} /\ lrn_pc' # lrn_pc
             /\ pubVars' = pubVars /\ monVars' = monVars)
       /\ \A t \in TopicNames : log'[t] # log[t] =>
            (log'[t] = Append(log[t], Head(inflight[t]).event)
             /\ pubVars' = pubVars /\ lrnVars' = lrnVars /\ monVars' = monVars)
    ]_vars

C19_Witness ==
    /\ Len(sent[PipelineTopic]) = 3
    /\ lrn_pos = 2
    /\ Len(sent[MetricsTopic]) = 2
    /\ mon_pos = 2
    /\ warnings # <<>>
    /\ nacks = <<>>

=============================================================================
